---- MODULE Spec2Model ----
(***************************************************************************)
(* A model of the library-api handlers: the genre controller               *)
(* (src/unnamed/part_000), the user service (src/api/services/user.js)     *)
(* and the review service (src/api/services/review.js), over one document  *)
(* store.  Every handler is an action; a handler whose database calls can  *)
(* interleave with another request's is split at its database calls.       *)
(***************************************************************************)
EXTENDS Integers, Sequences, FiniteSets, TLC

VARIABLES
    genres,        \* Genre collection: genre id -> name
    nextGenreId,   \* the next fresh Genre _id
    books,         \* Book collection: book id -> [genre, reviews]
    greq,          \* genre requests in flight: connection -> pending callback
    users,         \* User collection: user id -> user document
    now,           \* Date.now()
    reviews,       \* Review collection: review id -> review document
    nextReviewId,  \* the next fresh Review _id
    freq,          \* favorite/unfavorite requests in flight
    res            \* the response most recently sent

vars == <<genres, nextGenreId, books, greq, users, now, reviews, nextReviewId, freq, res>>

(***************************************************************************)
(* Bounds                                                                  *)
(***************************************************************************)
MaxGenres == 3
MaxUsers == 2
MaxReviews == 1
MaxTime == 2

GenreIds == 1..MaxGenres
BookIds == {"b1", "b2"}
Conns == {"c1", "c2"}
UserIds == 1..MaxUsers
ReviewIds == 1..MaxReviews

NoRes == [op |-> "none"]
Idle == [pc |-> "idle"]

(***************************************************************************)
(* Genre controller                                                        *)
(***************************************************************************)

\* Request bodies' name field, before sanitization.  NoName is an absent field.
NoName == <<"undefined">>
RawNames == { <<"a">>, <<"a", " ">>, <<" ", "a">>, <<"<">>, <<" ">>, <<>>, NoName }

RECURSIVE Escape(_)
Escape(s) ==
    IF s = <<>> THEN <<>>
    ELSE (IF Head(s) = "<" THEN <<"&", "l", "t", ";">> ELSE <<Head(s)>>) \o Escape(Tail(s))

RECURSIVE TrimLeft(_)
TrimLeft(s) ==
    IF s # <<>> /\ Head(s) = " " THEN TrimLeft(Tail(s)) ELSE s

RECURSIVE TrimRight(_)
TrimRight(s) ==
    IF s # <<>> /\ s[Len(s)] = " " THEN TrimRight(SubSeq(s, 1, Len(s) - 1)) ELSE s

Trim(s) == TrimRight(TrimLeft(s))

\* req.sanitize('name').escape(); req.sanitize('name').trim()
Sanitize(raw) == IF raw = NoName THEN NoName ELSE Trim(Escape(raw))

\* req.checkBody('name', ...).notEmpty(), run on the field as it was sent
NotEmpty(raw) == raw # NoName /\ \E i \in 1..Len(raw) : raw[i] # " "

\* Genre.findOne({'name': name})
GenreFindOne(name) == {g \in DOMAIN genres : genres[g] = name}

\* BookFind matching the genre array as a whole instead of its elements
BookFindMut(genreid) == {b \in BookIds : books[b].genre = {genreid}}
\* Book.find({'genre': genreid})
BookFind(genreid) == {b \in BookIds : genreid \in books[b].genre}

CharCode == [c \in {" ", "&", ";", "<", "a", "l", "t"} |->
    CASE c = " " -> 32 [] c = "&" -> 38 [] c = ";" -> 59 [] c = "<" -> 60
      [] c = "a" -> 97 [] c = "l" -> 108 [] c = "t" -> 116]

RECURSIVE NameLess(_, _)
NameLess(s, t) ==
    IF t = <<>> THEN FALSE
    ELSE IF s = <<>> THEN TRUE
    ELSE IF Head(s) # Head(t) THEN CharCode[Head(s)] < CharCode[Head(t)]
    ELSE NameLess(Tail(s), Tail(t))

RECURSIVE SortByName(_)
SortByName(S) ==
    IF S = {} THEN <<>>
    ELSE LET m == CHOOSE x \in S : \A y \in S :
                     \/ NameLess(genres[x], genres[y])
                     \/ (~NameLess(genres[y], genres[x]) /\ x <= y)
         IN <<m>> \o SortByName(S \ {m})

\* Genre.find().sort([['name', 'ascending']]): the ids of the rendered list
genre_list == SortByName(DOMAIN genres)

GenreUnchanged == UNCHANGED <<users, now, reviews, nextReviewId, freq>>

\* genre_create_post up to the callback of Genre.findOne
genre_create_post(c, raw) ==
    /\ greq[c] = Idle
    /\ LET name == Sanitize(raw)
       IN IF ~NotEmpty(raw)
          THEN /\ res' = [op |-> "genre_create_post", view |-> "genre_form", name |-> name]
               /\ greq' = greq
          ELSE IF GenreFindOne(name) # {}
          THEN /\ res' = [op |-> "genre_create_post", view |-> "redirect", name |-> name,
                          genre |-> CHOOSE g \in GenreFindOne(name) : TRUE, saved |-> FALSE]
               /\ greq' = greq
          ELSE /\ greq' = [greq EXCEPT ![c] = [pc |-> "save", name |-> name]]
               /\ res' = res
    /\ UNCHANGED <<genres, nextGenreId, books>>
    /\ GenreUnchanged

\* genre.save() and its callback
genre_save(c) ==
    /\ greq[c].pc = "save"
    /\ nextGenreId <= MaxGenres
    /\ genres' = [g \in DOMAIN genres \cup {nextGenreId} |->
                    IF g = nextGenreId THEN greq[c].name ELSE genres[g]]
    /\ nextGenreId' = nextGenreId + 1
    /\ greq' = [greq EXCEPT ![c] = Idle]
    /\ res' = [op |-> "genre_create_post", view |-> "redirect", name |-> greq[c].name,
               genre |-> nextGenreId, saved |-> TRUE]
    /\ UNCHANGED books
    /\ GenreUnchanged

\* genre_delete_post up to the callback of async.parallel
genre_delete_post(c, genreid) ==
    /\ greq[c] = Idle
    /\ IF Cardinality(BookFind(genreid)) > 0
       THEN /\ res' = [op |-> "genre_delete_post", view |-> "genre_delete",
                       genreid |-> genreid, genre_books |-> BookFind(genreid)]
            /\ greq' = greq
       ELSE /\ greq' = [greq EXCEPT ![c] = [pc |-> "remove", genreid |-> genreid]]
            /\ res' = res
    /\ UNCHANGED <<genres, nextGenreId, books>>
    /\ GenreUnchanged

\* Genre.findByIdAndRemove and its callback deleteGenre
deleteGenre(c) ==
    /\ greq[c].pc = "remove"
    /\ genres' = [g \in DOMAIN genres \ {greq[c].genreid} |-> genres[g]]
    /\ greq' = [greq EXCEPT ![c] = Idle]
    /\ res' = [op |-> "genre_delete_post", view |-> "redirect", genreid |-> greq[c].genreid]
    /\ UNCHANGED <<nextGenreId, books>>
    /\ GenreUnchanged

\* Initial genre collections: names are unique, books reference stored genres.
InitGenre ==
    /\ \E k \in 0..2 : \E f \in [1..k -> {<<"a">>, <<"&", "l", "t", ";">>}] :
          /\ \A i, j \in 1..k : f[i] = f[j] => i = j
          /\ genres = f
          /\ nextGenreId = k + 1
          /\ books \in [BookIds -> [genre : SUBSET (1..k), reviews : {<<>>}]]
    /\ greq = [c \in Conns |-> Idle]
    /\ users = <<>>
    /\ now = 1
    /\ reviews = <<>>
    /\ nextReviewId = 1
    /\ freq = [c \in Conns |-> Idle]
    /\ res = NoRes

NextGenre ==
    \/ \E c \in Conns, raw \in RawNames : genre_create_post(c, raw)
    \/ \E c \in Conns : genre_save(c)
    \/ \E c \in Conns, g \in GenreIds : genre_delete_post(c, g)
    \/ \E c \in Conns : deleteGenre(c)

SpecGenre == InitGenre /\ [][NextGenre]_vars

\* C1: genre_delete_post removes the genre if and only if no book references
\* it: a genre some book references stays in the collection and the delete
\* page is rendered again; a genre no book references is gone from the
\* collection and from genre_list once the request is answered.
C1_DeleteIffNoBooks ==
    /\ \A b \in BookIds : books[b].genre \subseteq DOMAIN genres
    /\ res.op = "genre_delete_post" =>
          IF \E b \in BookIds : res.genreid \in books[b].genre
          THEN res.view = "genre_delete" /\ res.genreid \in DOMAIN genres
          ELSE /\ res.view = "redirect"
               /\ res.genreid \notin DOMAIN genres
               /\ \A i \in 1..Len(genre_list) : genre_list[i] # res.genreid

C1_Witness_Removed ==
    /\ res.op = "genre_delete_post" /\ res.view = "redirect"
    /\ res.genreid < nextGenreId
    /\ \E b \in BookIds : books[b].genre # {}

\* C10: no two genres of the collection have the same name.
C10_UniqueNames ==
    \A g1, g2 \in DOMAIN genres : genres[g1] = genres[g2] => g1 = g2

(***************************************************************************)
(* User service                                                            *)
(***************************************************************************)

\* suspension_timeline: null.  `null > Date.now()` compares as 0 in JavaScript,
\* and the clock starts at 1.
Null == 0

\* How long user_utils.suspend_user suspends for, in clock ticks.
SuspensionPeriod == 1

FirstNames == {"n1", "n2"}

\* new User({...}) with the schema's defaults
NewUser(first_name) ==
    [first_name |-> first_name, user_type |-> "plain", suspended |-> FALSE,
     suspension_timeline |-> Null, follower_count |-> 0, following |-> {},
     favorites |-> {}]

\* the schema's paths that hold followers of a user: the schema has none
FollowersPath(doc) == {}

\* user.isFollowing(id)
isFollowing(doc, id) == id \in doc.following

\* user.follow(target): the document as saved
UserFollow(doc, target_id) == [doc EXCEPT !.following = @ \cup {target_id}]

\* user.unfollow(target): the document as saved
UserUnfollow(doc, target_id) == [doc EXCEPT !.following = @ \ {target_id}]

\* target_user.updateFollowerCount(count): the document as saved
updateFollowerCount(doc, count) == [doc EXCEPT !.follower_count = count]

\* user_utils.suspend_user(id): the document as saved
suspend_user(doc) ==
    [doc EXCEPT !.suspended = TRUE, !.suspension_timeline = now + SuspensionPeriod]

\* user_utils.unsuspend_user(id), and the update document of get
unsuspend_user(doc) == [doc EXCEPT !.suspended = FALSE, !.suspension_timeline = Null]

\* CountFollowers with the filter dropped from the query
CountFollowersMut(store, user_id) == Cardinality(DOMAIN store)
\* User.countDocuments({ followers: { $in: [user._id] } })
CountFollowers(store, user_id) ==
    Cardinality({d \in DOMAIN store : user_id \in FollowersPath(store[d])})

\* user.suspended && user.suspension_timeline > Date.now()
UnsuspendCondition(doc) == doc.suspended /\ doc.suspension_timeline > now

UserUnchanged == UNCHANGED <<genres, nextGenreId, books, greq, reviews, nextReviewId, freq>>

\* signup.  body: "none" (no user object), "incomplete" (a required field is
\* missing) or "complete".
signup(body, first_name, give_admin_priviledges, give_mod_priviledges) ==
    /\ IF body # "complete"
       THEN /\ res' = [op |-> "signup", status |-> 400]
            /\ users' = users
       ELSE LET id == Len(users) + 1
                u0 == NewUser(first_name)
                u1 == IF give_admin_priviledges THEN [u0 EXCEPT !.user_type = "admin"] ELSE u0
                u2 == IF give_mod_priviledges THEN [u1 EXCEPT !.user_type = "moderator"] ELSE u1
            IN /\ id <= MaxUsers
               /\ users' = Append(users, u2)
               /\ res' = [op |-> "signup", status |-> 200, user |-> id]
    /\ now' = now
    /\ UserUnchanged

\* login.  authenticated: the user passport's local strategy hands to the
\* callback, 0 for none.
login(authenticated) ==
    /\ IF authenticated \notin DOMAIN users
       THEN /\ res' = [op |-> "login", status |-> 422, user |-> authenticated]
            /\ users' = users
       ELSE /\ users' = IF UnsuspendCondition(users[authenticated])
                        THEN [users EXCEPT ![authenticated] = unsuspend_user(@)]
                        ELSE users
            /\ res' = [op |-> "login", status |-> 200, user |-> authenticated]
    /\ now' = now
    /\ UserUnchanged

\* get.  User.findByIdAndUpdate() names no document: the update reaches one
\* document of the collection or none, and what comes back is no user
\* document, so the handler ends in next(err).
get(id) ==
    /\ IF id \notin DOMAIN users
       THEN /\ res' = [op |-> "get", status |-> 401, user |-> id]
            /\ users' = users
       ELSE IF UnsuspendCondition(users[id])
       THEN /\ \/ users' = users
               \/ \E d \in DOMAIN users : users' = [users EXCEPT ![d] = unsuspend_user(@)]
            /\ res' = [op |-> "get", status |-> 500, user |-> id]
       ELSE /\ users' = users
            /\ res' = [op |-> "get", status |-> 200, user |-> id]
    /\ now' = now
    /\ UserUnchanged

\* update.  has_body: the request carries a user object; first_name: the one
\* profile field the body sets.  sent counts the responses written, thrown
\* whether the handler ended in next(err).
update(params_id, payload_id, has_body, first_name) ==
    /\ IF ~has_body
       THEN /\ res' = [op |-> "update", status |-> 400, sent |-> 1, thrown |-> FALSE,
                       params_id |-> params_id, payload_id |-> payload_id]
            /\ users' = users
       ELSE IF params_id \notin DOMAIN users
       THEN \* request_user is null: request_user._id throws
            /\ res' = [op |-> "update", status |-> 500, sent |-> 0, thrown |-> TRUE,
                       params_id |-> params_id, payload_id |-> payload_id]
            /\ users' = users
       ELSE LET rejected == params_id # payload_id
                found == payload_id \in DOMAIN users
            IN /\ users' = IF found
                           THEN [users EXCEPT ![payload_id].first_name = first_name]
                           ELSE users
               /\ res' = [op |-> "update",
                          status |-> IF rejected THEN 400 ELSE IF found THEN 200 ELSE 401,
                          sent |-> 1, thrown |-> rejected,
                          params_id |-> params_id, payload_id |-> payload_id]
    /\ now' = now
    /\ UserUnchanged

\* suspend
suspend(payload_id, params_id) ==
    /\ IF payload_id \notin DOMAIN users
       THEN /\ res' = [op |-> "suspend", status |-> 401, user |-> payload_id]
            /\ users' = users
       ELSE IF users[payload_id].user_type # "admin" /\ users[payload_id].user_type # "moderator"
       THEN /\ res' = [op |-> "suspend", status |-> 401, user |-> payload_id]
            /\ users' = users
       ELSE IF params_id \notin DOMAIN users
       THEN /\ res' = [op |-> "suspend", status |-> 500, user |-> payload_id]
            /\ users' = users
       ELSE /\ users' = [users EXCEPT ![params_id] = suspend_user(@)]
            /\ res' = [op |-> "suspend", status |-> 200, user |-> payload_id]
    /\ now' = now
    /\ UserUnchanged

\* What a follow or unfollow leaves for the next request to compare with: the
\* target's follower_count and the acting user's following set before it ran.
NoSnapshot == [taken |-> FALSE]
Snapshot(user_id, target_id) ==
    [taken |-> TRUE, follower_count |-> users[target_id].follower_count,
     following |-> users[user_id].following]

\* follow
follow(user_id, target_id) ==
    /\ IF user_id \notin DOMAIN users
       THEN /\ res' = [op |-> "follow", status |-> 401, user |-> user_id, target |-> target_id]
            /\ users' = users
       ELSE IF target_id \notin DOMAIN users \/ isFollowing(users[user_id], target_id)
       THEN /\ res' = [op |-> "follow", status |-> 500, user |-> user_id, target |-> target_id]
            /\ users' = users
       ELSE LET followed == [users EXCEPT ![user_id] = UserFollow(@, target_id)]
                count == CountFollowers(followed, user_id)
            IN /\ users' = [followed EXCEPT ![target_id] = updateFollowerCount(@, count)]
               /\ res' = [op |-> "follow", status |-> 200, user |-> user_id,
                          target |-> target_id, before |-> Snapshot(user_id, target_id)]
    /\ now' = now
    /\ UserUnchanged

\* unfollow
unfollow(user_id, target_id) ==
    /\ IF user_id \notin DOMAIN users
       THEN /\ res' = [op |-> "unfollow", status |-> 401, user |-> user_id, target |-> target_id]
            /\ users' = users
       ELSE IF target_id \notin DOMAIN users \/ ~isFollowing(users[user_id], target_id)
       THEN /\ res' = [op |-> "unfollow", status |-> 500, user |-> user_id, target |-> target_id]
            /\ users' = users
       ELSE LET unfollowed == [users EXCEPT ![user_id] = UserUnfollow(@, target_id)]
                count == CountFollowers(unfollowed, user_id)
            IN /\ users' = [unfollowed EXCEPT ![target_id] = updateFollowerCount(@, count)]
               /\ res' = [op |-> "unfollow", status |-> 200, user |-> user_id,
                          target |-> target_id,
                          before_follow |->
                             IF /\ res.op = "follow" /\ res.status = 200
                                /\ res.user = user_id /\ res.target = target_id
                             THEN res.before ELSE NoSnapshot]
    /\ now' = now
    /\ UserUnchanged

\* Date.now() advances
Tick ==
    /\ now < MaxTime
    /\ now' = now + 1
    /\ UNCHANGED <<users, res>>
    /\ UserUnchanged

InitUser ==
    /\ genres = <<>>
    /\ nextGenreId = 1
    /\ books = [b \in BookIds |-> [genre |-> {}, reviews |-> <<>>]]
    /\ greq = [c \in Conns |-> Idle]
    /\ users = <<>>
    /\ now = 1
    /\ reviews = <<>>
    /\ nextReviewId = 1
    /\ freq = [c \in Conns |-> Idle]
    /\ res = NoRes

\* Any id a token or a path can carry: the stored users' and one more.
AnyUserId == 1..(MaxUsers + 1)

SignupBodies == {"none", "incomplete", "complete"}

NextFollow ==
    \/ \E b \in SignupBodies, adm \in BOOLEAN, mod \in BOOLEAN : signup(b, "n1", adm, mod)
    \/ \E a, t \in AnyUserId : follow(a, t)
    \/ \E a, t \in AnyUserId : unfollow(a, t)

SpecFollow == InitUser /\ [][NextFollow]_vars

NextProfile ==
    \/ \E b \in SignupBodies, n \in FirstNames, adm \in BOOLEAN, mod \in BOOLEAN :
          signup(b, n, adm, mod)
    \/ \E p, a \in AnyUserId, hb \in BOOLEAN, n \in FirstNames : update(p, a, hb, n)

SpecProfile == InitUser /\ [][NextProfile]_vars

NextSuspend ==
    \/ \E b \in SignupBodies, adm \in BOOLEAN, mod \in BOOLEAN : signup(b, "n1", adm, mod)
    \/ \E a, t \in AnyUserId : suspend(a, t)
    \/ \E a \in AnyUserId : login(a)
    \/ \E a \in AnyUserId : get(a)
    \/ Tick

SpecSuspend == InitUser /\ [][NextSuspend]_vars

\* The users who follow t
FollowersOf(t) == {u \in DOMAIN users : t \in users[u].following}

\* C2: after a follow or unfollow that succeeded, the target's stored
\* follower_count is the number of users who follow the target.
C2_FollowerCountIsFollowers ==
    (res.op \in {"follow", "unfollow"} /\ res.status = 200) =>
        users[res.target].follower_count = Cardinality(FollowersOf(res.target))

C6_NoEditOfOthers ==
    [][(res'.op = "update" /\ res'.params_id # res'.payload_id
          /\ res'.params_id \in DOMAIN users) =>
          /\ res'.status = 400 /\ res'.sent = 1 /\ ~res'.thrown
          /\ users' = users]_vars

\* C7: login and get un-suspend a suspended user exactly when the user's
\* suspension_timeline has passed: never while it is still ahead, and always
\* for the user the request is about once it is behind.
C7_UnsuspendWhenElapsed ==
    [][res'.op \in {"login", "get"} =>
          /\ \A u \in DOMAIN users :
                (users[u].suspended /\ ~users'[u].suspended) =>
                    ~(users[u].suspension_timeline > now)
          /\ (res'.status = 200 /\ users[res'.user].suspended
                /\ ~(users[res'.user].suspension_timeline > now)) =>
                    ~users'[res'.user].suspended]_vars

(***************************************************************************)
(* Review service                                                          *)
(***************************************************************************)

Contents == {"c1", "c2"}
Tags == {"t1", "t2"}
Undefined == "undefined"

\* Any id a path can carry: the stored reviews' and one more.
AnyReviewId == 1..(MaxReviews + 1)

\* Suspended with login's condition in its place
SuspendedMut(doc) == doc.suspended /\ doc.suspension_timeline > now
\* user.suspended || user.suspension_timeline > Date.now()
Suspended(doc) == doc.suspended \/ doc.suspension_timeline > now

\* NotAuthor with delete's admin override
NotAuthorMut(review_id, payload_id) ==
    /\ reviews[review_id].review_author # payload_id
    /\ ~(payload_id \in DOMAIN users /\ users[payload_id].user_type = "admin")
\* req.review.review_author._id.toString() !== req.payload.id.toString()
NotAuthor(review_id, payload_id) == reviews[review_id].review_author # payload_id

\* DeleteForbidden with moderators allowed as well
DeleteForbiddenMut(review_id, user_id) ==
    NotAuthor(review_id, user_id) /\ users[user_id].user_type = "plain"
\* the condition under which delete answers 403
DeleteForbidden(review_id, user_id) ==
    NotAuthor(review_id, user_id) /\ users[user_id].user_type # "admin"

\* review.remove()
ReviewRemove(review_id) == [r \in DOMAIN reviews \ {review_id} |-> reviews[r]]

ReviewUnchanged == UNCHANGED <<genres, nextGenreId, greq, freq>>

\* preloadReview answers 404 for a review that is not stored
NotFound(op, review_id, payload_id) ==
    /\ res' = [op |-> op, status |-> 404, user |-> payload_id, review |-> review_id]
    /\ UNCHANGED <<users, now, reviews, nextReviewId, books>>

\* create
create(payload_id, has_body, book_id, content, tags) ==
    /\ IF ~has_body
       THEN /\ res' = [op |-> "create", status |-> 400, user |-> payload_id, book |-> book_id]
            /\ UNCHANGED <<reviews, nextReviewId, books>>
       ELSE IF payload_id \notin DOMAIN users
       THEN /\ res' = [op |-> "create", status |-> 401, user |-> payload_id, book |-> book_id]
            /\ UNCHANGED <<reviews, nextReviewId, books>>
       ELSE IF Suspended(users[payload_id]) \/ book_id \notin BookIds
       THEN /\ res' = [op |-> "create", status |-> 400, user |-> payload_id, book |-> book_id]
            /\ UNCHANGED <<reviews, nextReviewId, books>>
       ELSE /\ nextReviewId <= MaxReviews
            /\ reviews' = [r \in DOMAIN reviews \cup {nextReviewId} |->
                             IF r = nextReviewId
                             THEN [content |-> content, tags |-> tags,
                                   review_author |-> payload_id, book |-> book_id,
                                   favorite_count |-> 0]
                             ELSE reviews[r]]
            /\ nextReviewId' = nextReviewId + 1
            /\ books' = [books EXCEPT ![book_id].reviews = Append(@, nextReviewId)]
            /\ res' = [op |-> "create", status |-> 201, user |-> payload_id,
                       book |-> book_id, review |-> nextReviewId]
    /\ UNCHANGED <<users, now>>
    /\ ReviewUnchanged

\* update.  content, tags: the body's fields, or Undefined.  req.review.updateOne()
\* is called with no update document: persisted says whether the store takes
\* the fields set on req.review.
update_review(review_id, payload_id, has_body, content, tags, persisted) ==
    /\ IF review_id \notin DOMAIN reviews
       THEN NotFound("update", review_id, payload_id)
       ELSE /\ IF ~has_body
               THEN /\ res' = [op |-> "update", status |-> 400, user |-> payload_id,
                               review |-> review_id, has_body |-> has_body]
                    /\ reviews' = reviews
               ELSE IF NotAuthor(review_id, payload_id)
               THEN /\ res' = [op |-> "update", status |-> 403, user |-> payload_id,
                               review |-> review_id, has_body |-> has_body]
                    /\ reviews' = reviews
               ELSE IF Suspended(users[payload_id])
               THEN /\ res' = [op |-> "update", status |-> 400, user |-> payload_id,
                               review |-> review_id, has_body |-> has_body]
                    /\ reviews' = reviews
               ELSE /\ reviews' =
                         IF persisted
                         THEN [reviews EXCEPT
                                 ![review_id].content = IF content # Undefined THEN content ELSE @,
                                 ![review_id].tags = IF tags # Undefined THEN tags ELSE @]
                         ELSE reviews
                    /\ res' = [op |-> "update", status |-> 200, user |-> payload_id,
                               review |-> review_id, has_body |-> has_body]
            /\ UNCHANGED <<users, now, nextReviewId, books>>
    /\ ReviewUnchanged

\* delete
delete(review_id, user_id) ==
    /\ IF review_id \notin DOMAIN reviews
       THEN NotFound("delete", review_id, user_id)
       ELSE /\ IF user_id \notin DOMAIN users
               THEN /\ res' = [op |-> "delete", status |-> 400, user |-> user_id,
                               review |-> review_id]
                    /\ reviews' = reviews
               ELSE IF DeleteForbidden(review_id, user_id)
               THEN /\ res' = [op |-> "delete", status |-> 403, user |-> user_id,
                               review |-> review_id]
                    /\ reviews' = reviews
               ELSE /\ reviews' = ReviewRemove(review_id)
                    /\ res' = [op |-> "delete", status |-> 204, user |-> user_id,
                               review |-> review_id]
            /\ UNCHANGED <<users, now, nextReviewId, books>>
    /\ ReviewUnchanged

\* The review objects a create request carries: every content and tags for
\* the stored book, and one for a book that is not stored.
CreateBodies ==
    [book_id : {"b1"}, content : Contents, tags : Tags]
        \cup {[book_id |-> "b0", content |-> "c1", tags |-> "t1"]}

\* The review objects an update request carries: each sets content, tags or
\* both; and whether the store takes what updateOne() sends.
UpdateBodies ==
    { [content |-> "c2", tags |-> Undefined], [content |-> Undefined, tags |-> "t2"],
      [content |-> "c1", tags |-> "t1"] }
UpdateRequests ==
    [body : UpdateBodies, persisted : {TRUE}]
        \cup {[body |-> [content |-> "c2", tags |-> "t2"], persisted |-> FALSE]}

ReviewRequests ==
    \/ \E a \in AnyUserId : create(a, FALSE, "b1", Undefined, Undefined)
    \/ \E a \in AnyUserId, b \in CreateBodies : create(a, TRUE, b.book_id, b.content, b.tags)
    \/ \E r \in AnyReviewId, a \in AnyUserId :
          update_review(r, a, FALSE, Undefined, Undefined, FALSE)
    \/ \E r \in AnyReviewId, a \in AnyUserId, u \in UpdateRequests :
          update_review(r, a, TRUE, u.body.content, u.body.tags, u.persisted)

NextReview ==
    \/ \E b \in {"none", "incomplete"} : signup(b, "n1", FALSE, FALSE)
    \/ \E adm \in BOOLEAN, mod \in BOOLEAN : signup("complete", "n1", adm, mod)
    \/ ReviewRequests
    \/ \E r \in AnyReviewId, a \in AnyUserId : delete(r, a)

SpecReview == InitUser /\ [][NextReview]_vars

NextSuspendedReview ==
    \/ \E b \in {"none", "incomplete"} : signup(b, "n1", FALSE, FALSE)
    \/ \E adm \in BOOLEAN : signup("complete", "n1", adm, FALSE)
    \/ \E a, t \in AnyUserId : suspend(a, t)
    \/ Tick
    \/ ReviewRequests

SpecSuspendedReview == InitUser /\ [][NextSuspendedReview]_vars

\* C4: a delete removes the review only when the token's user is the review's
\* author or an admin; any other stored user is answered 403 and a user that
\* is not stored 400, and the review stays.
C4_DeleteAuthorOrAdmin ==
    [][(now' = now /\ res'.op = "delete" /\ res'.review \in DOMAIN reviews) =>
          LET r == res'.review
              u == res'.user
          IN IF u \notin DOMAIN users
             THEN res'.status = 400 /\ reviews' = reviews
             ELSE IF reviews[r].review_author = u \/ users[u].user_type = "admin"
             THEN TRUE
             ELSE res'.status = 403 /\ reviews' = reviews]_vars

C4_Witness ==
    /\ res.op = "delete" /\ res.status = 204
    /\ users[res.user].user_type = "admin"
    /\ res.review \notin DOMAIN reviews
    /\ \E b \in BookIds : \E i \in 1..Len(books[b].reviews) : books[b].reviews[i] = res.review

\* C5: a create by a suspended user (the flag set, or the timeline ahead) is
\* answered 400, saves no review and leaves every book's reviews list as it
\* was; an update by a suspended author is answered 400 and leaves the stored
\* review's content and tags as they were.
C5_SuspendedNoEffect ==
    [][/\ (now' = now /\ res'.op = "create" /\ res'.user \in DOMAIN users
             /\ (users[res'.user].suspended \/ users[res'.user].suspension_timeline > now)) =>
            (res'.status = 400 /\ reviews' = reviews /\ books' = books)
       /\ (now' = now /\ res'.op = "update" /\ res'.review \in DOMAIN reviews
             /\ reviews[res'.review].review_author = res'.user
             /\ (users[res'.user].suspended \/ users[res'.user].suspension_timeline > now)) =>
            (res'.status = 400 /\ reviews' = reviews)]_vars

C5_Witness ==
    /\ res.op = "update" /\ res.status = 400
    /\ res.review \in DOMAIN reviews
    /\ reviews[res.review].review_author = res.user
    /\ users[res.user].suspended

\* C8 as claimed: every update by a user who is not the review's author is
\* answered 403 and leaves the stored review as it was.
C8_NonAuthorAlways403 ==
    [][(now' = now /\ res'.op = "update" /\ res'.review \in DOMAIN reviews
          /\ reviews[res'.review].review_author # res'.user) =>
          (res'.status = 403 /\ reviews' = reviews)]_vars

\* C8: every update by a user who is not the review's author leaves the
\* stored review as it was, and is answered 403 when the request carries a
\* review object and 400 when it carries none.
C8_NonAuthorRejected ==
    [][(now' = now /\ res'.op = "update" /\ res'.review \in DOMAIN reviews
          /\ reviews[res'.review].review_author # res'.user) =>
          (res'.status = (IF res'.has_body THEN 403 ELSE 400) /\ reviews' = reviews)]_vars

C8_Witness ==
    /\ res.op = "update" /\ res.status = 403 /\ res.has_body
    /\ res.user \in DOMAIN users /\ users[res.user].user_type = "admin"
    /\ res.review \in DOMAIN reviews
    /\ reviews[res.review].review_author # res.user

(***************************************************************************)
(* favorite and unfavorite, split at their database calls                  *)
(***************************************************************************)

\* user.favorite(review_id): the document as saved
UserFavorite(doc, review_id) == [doc EXCEPT !.favorites = @ \cup {review_id}]

\* user.unfavorite(review_id): the document as saved
UserUnfavorite(doc, review_id) == [doc EXCEPT !.favorites = @ \ {review_id}]

\* The users whose favorites hold the review
Favoriters(review_id) == {u \in DOMAIN users : review_id \in users[u].favorites}

FavoriteUnchanged == UNCHANGED <<genres, nextGenreId, books, greq, now, nextReviewId>>

\* favorite and unfavorite up to the end of user.favorite / user.unfavorite
Favoriting(op, c, review_id, payload_id) ==
    /\ freq[c] = Idle
    /\ IF review_id \notin DOMAIN reviews
       THEN /\ res' = [op |-> op, status |-> 404, user |-> payload_id, review |-> review_id]
            /\ UNCHANGED <<users, freq>>
       ELSE IF payload_id \notin DOMAIN users
       THEN /\ res' = [op |-> op, status |-> 400, user |-> payload_id, review |-> review_id]
            /\ UNCHANGED <<users, freq>>
       ELSE /\ users' = [users EXCEPT ![payload_id] =
                           IF op = "favorite" THEN UserFavorite(@, review_id)
                           ELSE UserUnfavorite(@, review_id)]
            /\ freq' = [freq EXCEPT ![c] =
                           [pc |-> "count", op |-> op, user |-> payload_id, review |-> review_id]]
            /\ res' = res
    /\ reviews' = reviews
    /\ FavoriteUnchanged

favorite(c, review_id, payload_id) == Favoriting("favorite", c, review_id, payload_id)

unfavorite(c, review_id, payload_id) == Favoriting("unfavorite", c, review_id, payload_id)

\* review.updateFavoriteCount(), first half: the count query
updateFavoriteCount_count(c) ==
    /\ freq[c].pc = "count"
    /\ freq' = [freq EXCEPT ![c] =
                   [pc |-> "save", op |-> @.op, user |-> @.user, review |-> @.review,
                    count |-> Cardinality(Favoriters(@.review))]]
    /\ UNCHANGED <<users, reviews, res>>
    /\ FavoriteUnchanged

\* review.updateFavoriteCount(), second half: the review saved with the count,
\* and the handler's response
updateFavoriteCount_save(c) ==
    /\ freq[c].pc = "save"
    /\ reviews' = [reviews EXCEPT ![freq[c].review].favorite_count = freq[c].count]
    /\ res' = [op |-> freq[c].op, status |-> 200, user |-> freq[c].user,
               review |-> freq[c].review]
    /\ freq' = [freq EXCEPT ![c] = Idle]
    /\ users' = users
    /\ FavoriteUnchanged

\* The store after MaxUsers signups and MaxReviews reviews of the first user.
InitFavorite ==
    /\ genres = <<>>
    /\ nextGenreId = 1
    /\ users = [u \in UserIds |-> NewUser("n1")]
    /\ reviews = [r \in ReviewIds |->
                    [content |-> "c1", tags |-> "t1", review_author |-> 1, book |-> "b1",
                     favorite_count |-> 0]]
    /\ nextReviewId = MaxReviews + 1
    /\ books = [b \in BookIds |->
                  [genre |-> {},
                   reviews |-> IF b = "b1" THEN [r \in ReviewIds |-> r] ELSE <<>>]]
    /\ greq = [c \in Conns |-> Idle]
    /\ now = 1
    /\ freq = [c \in Conns |-> Idle]
    /\ res = NoRes

NextFavorite ==
    \/ \E c \in Conns, r \in AnyReviewId, a \in AnyUserId : favorite(c, r, a)
    \/ \E c \in Conns, r \in AnyReviewId, a \in AnyUserId : unfavorite(c, r, a)
    \/ \E c \in Conns : updateFavoriteCount_count(c)
    \/ \E c \in Conns : updateFavoriteCount_save(c)

SpecFavorite == InitFavorite /\ [][NextFavorite]_vars

\* C9: once every favorite and unfavorite request is answered, each review's
\* stored favorite_count is the number of users whose favorites hold it.
C9_FavoriteCountAfterAll ==
    (res.op \in {"favorite", "unfavorite"} /\ \A c \in Conns : freq[c] = Idle) =>
        \A r \in DOMAIN reviews : reviews[r].favorite_count = Cardinality(Favoriters(r))

\* The ids in a book's reviews list
ListedReviews(b) == {books[b].reviews[i] : i \in 1..Len(books[b].reviews)}

\* C11: after every answered create or delete, an id is in a book's reviews
\* list if and only if a review with that id is stored and references that
\* book.
C11_ReviewsListInSync ==
    \A b \in BookIds : \A id \in AnyReviewId :
        id \in ListedReviews(b) <=> (id \in DOMAIN reviews /\ reviews[id].book = b)

====
